---- MODULE Spec2Model ----
(***************************************************************************)
(* Model of the drum trainer: the notation mapper (DrumNotationMapper.py), *)
(* the MIDI reader and its polling thread (midi.py), the staff view        *)
(* (widget/music_sheet.py) and the application shell (gui.py).             *)
(***************************************************************************)
EXTENDS Integers, Sequences, FiniteSets, TLC

VARIABLES
    mapper,        \* one call site of DrumNotationMapper: inputs and results
    readers,       \* USBMIDIReader objects: port_keyword, port_name, port, running, thread
    ports,         \* mido input port objects created by mido.open_input
    threads,       \* threading.Thread objects running USBMIDIReader._read_loop: position,
                   \* the port being drained, the exception that ended the thread
    ctl,           \* the thread that calls start/stop (main thread or Qt GUI thread)
    printed,       \* messages passed to USBMIDIReader._default_handler
    arrived,       \* number of MIDI messages the devices have produced
    app_reader,    \* DrumApp.reader
    qtQueue,       \* queued note_received emissions waiting in the GUI event loop
    events,        \* MusicSheetWidget.events
    current_time,  \* MusicSheetWidget.current_time
    now,           \* time.time() - MusicSheetWidget.start_time
    drawn,         \* what the last paintEvent drew
    writers,       \* threads that have mutated MusicSheetWidget.events
    lastPruned     \* how many records the last _prune_events call dropped

vars == <<mapper, readers, ports, threads, ctl, printed, arrived,
          app_reader, qtQueue, events, current_time, now, drawn, writers, lastPruned>>

readerVars == <<readers, ports, threads, ctl, printed, arrived>>
appVars == <<app_reader, qtQueue, events, current_time, now, drawn, writers, lastPruned>>

-----------------------------------------------------------------------------
(* Python values *)

\* None where an int is expected (Optional[int], port and thread references)
None == 0 - 1

Min(a, b) == IF a < b THEN a ELSE b
Max(a, b) == IF a > b THEN a ELSE b

RECURSIVE Pow2(_)
Pow2(n) == IF n = 0 THEN 1 ELSE 2 * Pow2(n - 1)

-----------------------------------------------------------------------------
(* DrumNotationMapper.py *)

\* DRUM_NOTATION_TO_MIDI, in the dict's insertion order
DRUM_NOTATION_TO_MIDI ==
    << <<"x", "top_space", 42>>,
       <<"+", "top_space", 42>>,
       <<"x", "above_top_line", 46>>,
       <<"O", "above_top_line", 46>>,
       <<"x", "above_staff", 44>>,
       <<"normal", "middle_line", 38>>,
       <<"accent", "middle_line", 38>>,
       <<"o", "middle_line", 38>>,
       <<"normal", "below_bottom_line", 36>>,
       <<"normal", "second_space", 48>>,
       <<"normal", "third_space", 47>>,
       <<"normal", "fourth_space", 45>>,
       <<"normal", "bottom_line", 43>>,
       <<"x", "above_top_line_crash", 49>>,
       <<"x", "top_line", 51>>,
       <<"x", "space_above_top_line", 53>>
    >>

\* key in DRUM_NOTATION_TO_MIDI
NotationHasKey(notehead, position) ==
    \E i \in 1..Len(DRUM_NOTATION_TO_MIDI) :
        /\ DRUM_NOTATION_TO_MIDI[i][1] = notehead
        /\ DRUM_NOTATION_TO_MIDI[i][2] = position

\* DRUM_NOTATION_TO_MIDI.get(key): None when the key is absent
NotationGet(notehead, position) ==
    IF NotationHasKey(notehead, position)
    THEN LET i == CHOOSE j \in 1..Len(DRUM_NOTATION_TO_MIDI) :
                    /\ DRUM_NOTATION_TO_MIDI[j][1] = notehead
                    /\ DRUM_NOTATION_TO_MIDI[j][2] = position
         IN  DRUM_NOTATION_TO_MIDI[i][3]
    ELSE None

\* a mapper that forgets the fallback to the "normal" notehead
get_midi_note_NoFallback(notehead, position) ==
    NotationGet(notehead, position)

get_midi_note(notehead, position) ==
    IF NotationHasKey(notehead, position)
    THEN NotationGet(notehead, position)
    ELSE NotationGet("normal", position)

VelocityKeys == {"ghost", "normal", "accent", "rimshot"}

VELOCITY_MAP ==
    [a \in VelocityKeys |->
        CASE a = "ghost" -> 30
          [] a = "normal" -> 80
          [] a = "accent" -> 110
          [] a = "rimshot" -> 120]

DynamicKeys == {"pp", "p", "mp", "mf", "f", "ff"}

(* A Python float is an IEEE-754 double m * 2^e with 2^52 <= m < 2^53.  The  *)
(* mantissa is held in limbs of LimbBits bits, least significant first.    *)
LimbBits == 18
Limb == Pow2(LimbBits)
MantissaBits == 53

\* DYNAMIC_MULTIPLIER: the doubles nearest to the decimal literals
DYNAMIC_MULTIPLIER ==
    [d \in DynamicKeys |->
        CASE d = "pp" -> [m |-> <<0, 0, 65536>>, e |-> 0 - 53]             \* 0.5
          [] d = "p"  -> [m |-> <<157286, 104857, 91750>>, e |-> 0 - 53]   \* 0.7
          [] d = "mp" -> [m |-> <<209715, 52428, 111411>>, e |-> 0 - 53]   \* 0.85
          [] d = "mf" -> [m |-> <<0, 0, 65536>>, e |-> 0 - 52]             \* 1.0
          [] d = "f"  -> [m |-> <<157286, 104857, 75366>>, e |-> 0 - 52]   \* 1.15
          [] d = "ff" -> [m |-> <<52429, 209715, 85196>>, e |-> 0 - 52]]   \* 1.3

\* the float 1.0
FloatOne == [m |-> <<0, 0, 65536>>, e |-> 0 - 52]

RECURSIVE BitLen(_)
BitLen(n) == IF n = 0 THEN 0 ELSE 1 + BitLen(n \div 2)

\* limbs of L * b for a small integer b, with one more limb for the carry
RECURSIVE MulCarry(_, _, _)
MulCarry(L, b, carry) ==
    IF L = <<>> THEN <<carry>>
    ELSE LET v == Head(L) * b + carry
         IN  <<v % Limb>> \o MulCarry(Tail(L), b, v \div Limb)

\* limbs of L + c for a small integer c
RECURSIVE AddCarry(_, _)
AddCarry(L, c) ==
    IF L = <<>> THEN <<c>>
    ELSE LET v == Head(L) + c
         IN  <<v % Limb>> \o AddCarry(Tail(L), v \div Limb)

\* number of significant bits of a limb sequence
RECURSIVE LimbsBitLen(_)
LimbsBitLen(L) ==
    IF L = <<>> THEN 0
    ELSE LET hi == LimbsBitLen(Tail(L))
         IN  IF hi > 0 THEN LimbBits + hi ELSE BitLen(Head(L))

\* L >> s for 0 <= s < LimbBits
RECURSIVE ShrBits(_, _)
ShrBits(L, s) ==
    IF L = <<>> THEN <<>>
    ELSE LET nxt == IF Len(L) > 1 THEN L[2] ELSE 0
         IN  <<(Head(L) \div Pow2(s)) + (nxt % Pow2(s)) * Pow2(LimbBits - s)>>
             \o ShrBits(Tail(L), s)

\* L >> t for any t >= 0
RECURSIVE Shr(_, _)
Shr(L, t) ==
    IF L = <<>> THEN <<>>
    ELSE IF t >= LimbBits THEN Shr(Tail(L), t - LimbBits)
    ELSE ShrBits(L, t)

\* the integer a limb sequence holds (it has to fit a machine word)
RECURSIVE LimbsToInt(_)
LimbsToInt(L) ==
    IF L = <<>> THEN 0 ELSE Head(L) + Limb * LimbsToInt(Tail(L))

\* base_vel * mult: the int is converted exactly, the exact product is
\* rounded to the nearest double, ties to even
FloatMulInt(base, f) ==
    LET P == MulCarry(f.m, base, 0)
        s == Max(LimbsBitLen(P) - MantissaBits, 0)
        q == Shr(P, s)
        rem == P[1] % Pow2(s)
        up == \/ 2 * rem > Pow2(s)
              \/ 2 * rem = Pow2(s) /\ q[1] % 2 = 1
    IN  [m |-> IF up THEN AddCarry(q, 1) ELSE q, e |-> f.e + s]

\* int(x) for a float x >= 0: truncation
FloatToInt(x) ==
    IF x.e >= 0 THEN LimbsToInt(x.m) * Pow2(x.e)
    ELSE LimbsToInt(Shr(x.m, 0 - x.e))

\* a get_velocity that forgets the clamp
get_velocity_NoClamp(articulation, dynamic) ==
    LET base_vel == IF articulation \in VelocityKeys
                    THEN VELOCITY_MAP[articulation] ELSE VELOCITY_MAP["normal"]
        mult == IF dynamic \in DynamicKeys THEN DYNAMIC_MULTIPLIER[dynamic] ELSE FloatOne
    IN  FloatToInt(FloatMulInt(base_vel, mult))

\* dynamic is None, "" or a string; None and "" take the else branch
get_velocity(articulation, dynamic) ==
    LET base_vel == IF articulation \in VelocityKeys
                    THEN VELOCITY_MAP[articulation] ELSE VELOCITY_MAP["normal"]
        mult == IF dynamic \notin {"None", ""}
                THEN (IF dynamic \in DynamicKeys THEN DYNAMIC_MULTIPLIER[dynamic] ELSE FloatOne)
                ELSE FloatOne
        vel == FloatToInt(FloatMulInt(base_vel, mult))
    IN  Max(1, Min(127, vel))

\* the result of map_event: None, or the pair (midi_note, velocity)
NoMapping == <<None, None>>

map_event(event) ==
    LET midi_note == get_midi_note(event.notehead, event.position)
    IN  IF midi_note = None THEN NoMapping
        ELSE <<midi_note, get_velocity(event.articulation, event.dynamic)>>

-----------------------------------------------------------------------------
(* Strings whose characters matter are sequences of one-character strings *)

UpperLetters == <<"A","B","C","D","E","F","G","H","I","J","K","L","M",
                  "N","O","P","Q","R","S","T","U","V","W","X","Y","Z">>
LowerLetters == <<"a","b","c","d","e","f","g","h","i","j","k","l","m",
                  "n","o","p","q","r","s","t","u","v","w","x","y","z">>

LowerChar(c) ==
    IF \E i \in 1..Len(UpperLetters) : UpperLetters[i] = c
    THEN LowerLetters[CHOOSE i \in 1..Len(UpperLetters) : UpperLetters[i] = c]
    ELSE c

\* str.lower()
Lower(s) == [i \in 1..Len(s) |-> LowerChar(s[i])]

\* sub in s
Contains(sub, s) ==
    \E i \in 1..(Len(s) - Len(sub) + 1) : SubSeq(s, i, i + Len(sub) - 1) = sub

\* None where a str is expected (Optional[str])
NoneStr == <<"None">>

\* truth value of an Optional[str]
Truthy(s) == s # NoneStr /\ s # <<>>

USBDrum == <<"U","S","B"," ","D","r","u","m">>
Other == <<"O","t","h","e","r">>

\* the endpoint names the devices of the model can show
Names == {USBDrum, Other}

\* port_keyword values: None, a keyword that is in one name and a keyword that
\* is in both, each in a case other than the names'
Keywords == {NoneStr, <<"u","s","b">>, <<"R">>}

\* the lists a call of mido.get_input_names() can return: no name twice
AvailLists ==
    {L \in UNION {[1..n -> Names] : n \in 0..Cardinality(Names)} :
        \A i, j \in 1..Len(L) : i # j => L[i] # L[j]}

InList(n, L) == \E i \in 1..Len(L) : L[i] = n

\* the condition of the if in _auto_detect_port
KeywordMatches(port_keyword, p) ==
    Truthy(port_keyword) /\ Contains(Lower(port_keyword), Lower(p))

\* one pass of the for loop of _auto_detect_port over the list L:
\* the first matching name, or None when the loop falls through
RECURSIVE ScanPorts(_, _)
ScanPorts(port_keyword, L) ==
    IF L = <<>> THEN NoneStr
    ELSE IF KeywordMatches(port_keyword, Head(L)) THEN Head(L)
    ELSE ScanPorts(port_keyword, Tail(L))

-----------------------------------------------------------------------------
(* midi.py: USBMIDIReader *)

\* the timeout of _auto_detect_port, in units of its time.sleep(0.2)
TimeoutPolls == 2
MaxOpens == 2
MaxMsgs == 2
MaxReaders == 2

\* thread identities: the calling thread, and thread object k of threads
GuiThread == 0

NoteOn == [type |-> "note_on", note |-> 38, velocity |-> 100]
NoteOnZero == [type |-> "note_on", note |-> 42, velocity |-> 0]
NoteOff == [type |-> "note_off", note |-> 38, velocity |-> 64]
Messages == {NoteOn, NoteOnZero, NoteOff}

\* USBMIDIReader.__init__ with auto_start=False
NewReader(port_keyword, message_handler) ==
    [port_keyword |-> port_keyword, message_handler |-> message_handler,
     port_name |-> NoneStr, port |-> None, running |-> FALSE, thread |-> None]

IdleCtl ==
    [pc |-> "idle", op |-> "none", r |-> None, arg |-> NoneStr, elapsed |-> 0,
     polls |-> <<>>, result |-> "none", early |-> FALSE, nports0 |-> 0, nthreads0 |-> 0]

\* the calling thread enters a method of reader r
Enter(op, r, arg) ==
    [ctl EXCEPT !.op = op, !.r = r, !.arg = arg, !.elapsed = 0, !.polls = <<>>,
                !.result = "none", !.early = FALSE,
                !.nports0 = Len(ports), !.nthreads0 = Len(threads)]

ThreadAlive(k) == threads[k].pc # "done"
AliveThreads == {k \in 1..Len(threads) : ThreadAlive(k)}

\* where the calling thread goes on when stop returns: DrumApp.start_reader
\* goes on to create the new reader, every other caller is done
AfterStop(op) == IF op = "start_reader" THEN "create" ELSE "idle"

\* where the calling thread goes on when start returns: __enter__ goes on to
\* its return statement, every other caller is done
AfterStart(op) == IF op = "with" THEN "enter_return" ELSE "idle"

Returned(c) ==
    [c EXCEPT !.pc = AfterStop(c.op),
              !.result = IF AfterStop(c.op) = "idle" THEN "ok" ELSE "none"]

\* a start that sets running before it has a port
StartRunningFirst(r, port_name) ==
    /\ ctl.pc = "idle"
    /\ r \in 1..Len(readers)
    /\ readers[r].running \/ Len(ports) < MaxOpens
    /\ LET c == Enter("start", r, port_name)
       IN  IF readers[r].running
           THEN /\ ctl' = [c EXCEPT !.result = "ok", !.early = TRUE]
                /\ readers' = readers
           ELSE IF port_name # NoneStr
           THEN /\ readers' = [readers EXCEPT ![r].port_name = port_name, ![r].running = TRUE]
                /\ ctl' = [c EXCEPT !.pc = "open"]
           ELSE /\ readers' = [readers EXCEPT ![r].running = TRUE]
                /\ ctl' = [c EXCEPT !.pc = "detect"]
    /\ UNCHANGED <<ports, threads, printed, arrived, mapper>>
    /\ UNCHANGED appVars

\* USBMIDIReader.start(port_name), up to the search for or the opening of the port
Start(r, port_name) ==
    /\ ctl.pc = "idle"
    /\ r \in 1..Len(readers)
    /\ readers[r].running \/ Len(ports) < MaxOpens
    /\ LET c == Enter("start", r, port_name)
       IN  IF readers[r].running
           THEN /\ ctl' = [c EXCEPT !.result = "ok", !.early = TRUE]
                /\ readers' = readers
           ELSE IF port_name # NoneStr
           THEN /\ readers' = [readers EXCEPT ![r].port_name = port_name]
                /\ ctl' = [c EXCEPT !.pc = "open"]
           ELSE /\ readers' = readers
                /\ ctl' = [c EXCEPT !.pc = "detect"]
    /\ UNCHANGED <<ports, threads, printed, arrived, mapper>>
    /\ UNCHANGED appVars

\* _auto_detect_port: one iteration of the while loop (the deadline has not
\* passed): the for loop over L = mido.get_input_names(), then return or
\* time.sleep(0.2), which lasts slept units of 0.2 s, at least one
DetectPoll(L, slept) ==
    /\ ctl.pc = "detect"
    /\ ctl.elapsed < TimeoutPolls
    /\ LET p == ScanPorts(readers[ctl.r].port_keyword, L)
           c == [ctl EXCEPT !.polls = Append(ctl.polls, L)]
       IN  IF p # NoneStr
           THEN /\ readers' = [readers EXCEPT ![ctl.r].port_name = p]
                /\ ctl' = [c EXCEPT !.pc = "open"]
           ELSE /\ readers' = readers
                /\ ctl' = [c EXCEPT !.elapsed = Min(ctl.elapsed + slept, TimeoutPolls)]
    /\ UNCHANGED <<ports, threads, printed, arrived, mapper>>
    /\ UNCHANGED appVars

\* an _auto_detect_port that falls off its end and returns None, which start
\* hands to mido.open_input
DetectTimeoutReturnsNone ==
    /\ ctl.pc = "detect"
    /\ ctl.elapsed >= TimeoutPolls
    /\ readers' = [readers EXCEPT ![ctl.r].port_name = NoneStr]
    /\ ctl' = [ctl EXCEPT !.pc = "open"]
    /\ UNCHANGED <<ports, threads, printed, arrived, mapper>>
    /\ UNCHANGED appVars

\* _auto_detect_port: the deadline has passed, raise TimeoutError out of start
DetectTimeout ==
    /\ ctl.pc = "detect"
    /\ ctl.elapsed >= TimeoutPolls
    /\ ctl' = [ctl EXCEPT !.pc = "idle", !.result = "TimeoutError"]
    /\ UNCHANGED <<readers, ports, threads, printed, arrived, mapper>>
    /\ UNCHANGED appVars

\* start, from mido.open_input on: open the port, set running, start the thread.
\* mido.open_input raises when no such port exists among the ports L of now.
Open(L) ==
    /\ ctl.pc = "open"
    /\ LET r == ctl.r
           name == readers[r].port_name
       IN  IF InList(name, L)
           THEN /\ ports' = Append(ports, [name |-> name, closeCalls |-> 0,
                                            queue |-> <<>>])
                /\ threads' = Append(threads, [reader |-> r, pc |-> "check", it |-> None,
                                                exc |-> "none"])
                /\ readers' = [readers EXCEPT ![r].port = Len(ports) + 1,
                                              ![r].running = TRUE,
                                              ![r].thread = Len(threads) + 1]
                /\ ctl' = [ctl EXCEPT !.pc = AfterStart(ctl.op),
                                      !.result = IF AfterStart(ctl.op) = "idle"
                                                 THEN "ok" ELSE "none"]
           ELSE /\ ctl' = [ctl EXCEPT !.pc = "idle", !.result = "IOError"]
                /\ UNCHANGED <<readers, ports, threads>>
    /\ UNCHANGED <<printed, arrived, mapper>>
    /\ UNCHANGED appVars

\* stop without the running check: every call joins and closes
StopBeginNoGuard(r, c) ==
    /\ readers' = [readers EXCEPT ![r].running = FALSE]
    /\ ctl' = [c EXCEPT !.pc = "join", !.r = r]

\* USBMIDIReader.stop, up to the join; c is the caller's frame
StopBegin(r, c) ==
    IF ~readers[r].running
    THEN /\ readers' = readers
         /\ ctl' = [Returned(c) EXCEPT !.early = TRUE]
    ELSE /\ readers' = [readers EXCEPT ![r].running = FALSE]
         /\ ctl' = [c EXCEPT !.pc = "join", !.r = r]

\* a call of reader.stop() by the calling thread
Stop(r) ==
    /\ ctl.pc = "idle"
    /\ r \in 1..Len(readers)
    /\ StopBegin(r, Enter("stop", r, NoneStr))
    /\ UNCHANGED <<ports, threads, printed, arrived, mapper>>
    /\ UNCHANGED appVars

\* a stop that closes the port without waiting for the thread
JoinedNoWait(r) == TRUE

\* thread.join() of stop returns: there is no thread, or it has ended
Joined(r) ==
    \/ readers[r].thread = None
    \/ threads[readers[r].thread].pc = "done"

\* USBMIDIReader.stop, from the join on: join, close the port, return
StopFinish ==
    /\ ctl.pc = "join"
    /\ Joined(ctl.r)
    /\ LET p == readers[ctl.r].port
       IN  ports' = IF p # None
                    THEN [ports EXCEPT ![p].closeCalls = ports[p].closeCalls + 1]
                    ELSE ports
    /\ ctl' = Returned(ctl)
    /\ UNCHANGED <<readers, threads, printed, arrived, mapper>>
    /\ UNCHANGED appVars

-----------------------------------------------------------------------------
(* midi.py: USBMIDIReader.__enter__ and __exit__, run by a with statement *)

\* the names the body of __enter__ can refer to: its parameter, and the names
\* bound at the top level of midi.py
EnterScope == {"self", "mido", "threading", "time", "Optional", "Callable", "USBMIDIReader"}

\* `with reader:` of the calling thread, the head of __enter__:
\* `if not self.running: self.start()`
WithEnter(r) ==
    /\ ctl.pc = "idle"
    /\ r \in 1..Len(readers)
    /\ readers[r].running \/ Len(ports) < MaxOpens
    /\ LET c == Enter("with", r, NoneStr)
       IN  ctl' = IF readers[r].running
                  THEN [c EXCEPT !.pc = "enter_return"]
                  ELSE [c EXCEPT !.pc = "detect"]
    /\ UNCHANGED <<readers, ports, threads, printed, arrived, mapper>>
    /\ UNCHANGED appVars

\* the `return this` of __enter__.  When the name is bound, the with statement
\* gets the value, runs its body (empty here) and calls __exit__, which is
\* self.stop(); when it is not, NameError leaves __enter__ and the with
\* statement, and __exit__ is not called.
WithEnterReturn ==
    /\ ctl.pc = "enter_return"
    /\ IF "this" \in EnterScope
       THEN StopBegin(ctl.r, ctl)
       ELSE /\ ctl' = [ctl EXCEPT !.pc = "idle", !.result = "NameError"]
            /\ readers' = readers
    /\ UNCHANGED <<ports, threads, printed, arrived, mapper>>
    /\ UNCHANGED appVars

-----------------------------------------------------------------------------
(* widget/music_sheet.py: MusicSheetWidget *)

\* seconds_visible and the last clock value of the model, in clock units
SecondsVisible == 2
MaxTime == 4
MaxEvents == 2

\* midi_to_notation[midi_note], or the else branch of add_midi_hit:
\* the first table entry with that note wins
MidiToNotation(midi_note) ==
    IF \E i \in 1..Len(DRUM_NOTATION_TO_MIDI) : DRUM_NOTATION_TO_MIDI[i][3] = midi_note
    THEN LET i == CHOOSE j \in 1..Len(DRUM_NOTATION_TO_MIDI) :
                    /\ DRUM_NOTATION_TO_MIDI[j][3] = midi_note
                    /\ \A l \in 1..(j - 1) : DRUM_NOTATION_TO_MIDI[l][3] # midi_note
         IN  <<DRUM_NOTATION_TO_MIDI[i][1], DRUM_NOTATION_TO_MIDI[i][2]>>
    ELSE <<"normal", "middle_line">>

ArticulationOf(velocity) ==
    IF velocity <= 40 THEN "ghost"
    ELSE IF velocity >= 105 THEN "accent"
    ELSE "normal"

VisualNote(t, midi_note, velocity) ==
    [t |-> t, midi_note |-> midi_note,
     notehead |-> MidiToNotation(midi_note)[1],
     position |-> MidiToNotation(midi_note)[2],
     articulation |-> ArticulationOf(velocity)]

\* a prune that keeps everything
prune_events_KeepAll(evs, ct) == evs

\* _prune_events: the list it assigns to self.events
prune_events(evs, ct) ==
    LET cutoff == ct - SecondsVisible
        Keep(e) == e.t >= cutoff
    IN  SelectSeq(evs, Keep)

\* add_midi_hit, run by thread thr
add_midi_hit(thr, midi_note, velocity) ==
    /\ LET appended == Append(events, VisualNote(now, midi_note, velocity))
       IN  /\ events' = prune_events(appended, current_time)
           /\ lastPruned' = Len(appended) - Len(prune_events(appended, current_time))
    /\ writers' = writers \cup {thr}
    /\ UNCHANGED <<app_reader, current_time, now, drawn>>

add_note(thr, midi_note) == add_midi_hit(thr, midi_note, 80)

\* the records the for loop of paintEvent does not skip, with their age dt
Drawable(evs, ct) ==
    LET Visible(e) == ~(ct - e.t < 0 \/ ct - e.t > SecondsVisible)
        vis == SelectSeq(evs, Visible)
    IN  [i \in 1..Len(vis) |-> [ev |-> vis[i], dt |-> ct - vis[i].t]]

-----------------------------------------------------------------------------
(* gui.py: the note_received signal and DrumApp.start_reader.handle_msg *)

\* an emit that calls the slot in the emitting thread (a direct connection)
note_received_emit_Direct(thr, midi_note) ==
    /\ add_note(thr, midi_note)
    /\ qtQueue' = qtQueue

\* note_received.emit(note) in thread thr.  The signal is connected to
\* sheet.add_note with the default connection type: the slot runs at once when
\* the emitter is the receiver's thread and is queued for the GUI event loop
\* otherwise.
note_received_emit(thr, midi_note) ==
    IF thr = GuiThread
    THEN /\ add_note(thr, midi_note)
         /\ qtQueue' = qtQueue
    ELSE /\ qtQueue' = Append(qtQueue, midi_note)
         /\ UNCHANGED <<app_reader, events, current_time, now, drawn, writers, lastPruned>>

handle_msg(thr, msg) ==
    IF msg.type = "note_on" /\ msg.velocity > 0
    THEN note_received_emit(thr, msg.note)
    ELSE UNCHANGED appVars

\* USBMIDIReader.stop of reader r run by thread thr from inside the callback.
\* thr is the reader's own polling thread, and Thread.join() of the current
\* thread raises RuntimeError: the exception leaves stop before the close,
\* leaves the handler and ends _read_loop.
stop_in_callback(thr, r) ==
    IF ~readers[r].running
    THEN UNCHANGED <<readers, threads>>
    ELSE /\ readers[r].thread = thr
         /\ readers' = [readers EXCEPT ![r].running = FALSE]
         /\ threads' = [threads EXCEPT ![thr].pc = "done", ![thr].exc = "RuntimeError"]

\* self.message_handler(msg) in thread thr.  The handlers are
\* DrumApp.start_reader.handle_msg, a caller's handler that prints the message
\* and calls reader.stop() when it is a note_off, and _default_handler.
CallHandler(thr, message_handler, msg) ==
    IF message_handler = "handle_msg"
    THEN /\ handle_msg(thr, msg)
         /\ printed' = printed
         /\ UNCHANGED <<readers, threads>>
    ELSE IF message_handler = "stop_on_note_off" /\ msg.type = "note_off"
    THEN /\ printed' = Append(printed, msg)
         /\ stop_in_callback(thr, threads[thr].reader)
         /\ UNCHANGED appVars
    ELSE /\ printed' = Append(printed, msg)
         /\ UNCHANGED <<readers, threads>>
         /\ UNCHANGED appVars

-----------------------------------------------------------------------------
(* midi.py: USBMIDIReader._read_loop, run by thread object k *)

\* the while condition: go on to iter_pending() of the port, or end
LoopCheck(k) ==
    /\ k \in 1..Len(threads)
    /\ threads[k].pc = "check"
    /\ LET rd == readers[threads[k].reader]
       IN  threads' = IF rd.running /\ rd.port # None
                      THEN [threads EXCEPT ![k].pc = "iter", ![k].it = rd.port]
                      ELSE [threads EXCEPT ![k].pc = "done"]
    /\ UNCHANGED <<readers, ports, ctl, printed, arrived, mapper>>
    /\ UNCHANGED appVars

\* a loop that takes the newest pending message first
LoopDeliverNewestFirst(k) ==
    /\ k \in 1..Len(threads)
    /\ threads[k].pc = "iter"
    /\ LET p == threads[k].it
           n == Len(ports[p].queue)
       IN  /\ ports[p].queue # <<>>
           /\ ports' = [ports EXCEPT ![p].queue = SubSeq(ports[p].queue, 1, n - 1)]
           /\ CallHandler(k, readers[threads[k].reader].message_handler, ports[p].queue[n])
    /\ UNCHANGED <<ctl, arrived, mapper>>

\* the for loop: iter_pending() yields a message, the handler is called
LoopDeliver(k) ==
    /\ k \in 1..Len(threads)
    /\ threads[k].pc = "iter"
    /\ LET p == threads[k].it
       IN  /\ ports[p].queue # <<>>
           /\ ports' = [ports EXCEPT ![p].queue = Tail(ports[p].queue)]
           /\ CallHandler(k, readers[threads[k].reader].message_handler, Head(ports[p].queue))
    /\ UNCHANGED <<ctl, arrived, mapper>>

\* the for loop ends: iter_pending() has nothing more, time.sleep(poll_interval)
LoopSleep(k) ==
    /\ k \in 1..Len(threads)
    /\ threads[k].pc = "iter"
    /\ ports[threads[k].it].queue = <<>>
    /\ threads' = [threads EXCEPT ![k].pc = "check", ![k].it = None]
    /\ UNCHANGED <<readers, ports, ctl, printed, arrived, mapper>>
    /\ UNCHANGED appVars

-----------------------------------------------------------------------------
(* The devices *)

\* a device sends message m to the open port p
MidiArrive(p, m) ==
    /\ p \in 1..Len(ports)
    /\ ports[p].closeCalls = 0
    /\ arrived < MaxMsgs
    /\ arrived' = arrived + 1
    /\ ports' = [ports EXCEPT ![p].queue = Append(ports[p].queue, m)]
    /\ UNCHANGED <<readers, threads, ctl, printed, mapper>>
    /\ UNCHANGED appVars

-----------------------------------------------------------------------------
(* gui.py: DrumApp, and the GUI event loop *)

\* a start_reader that leaves the old reader running
StartReaderNoStop(port_name) ==
    /\ ctl.pc = "idle"
    /\ Len(readers) < MaxReaders
    /\ Len(ports) < MaxOpens
    /\ ctl' = [Enter("start_reader", app_reader, port_name) EXCEPT !.pc = "create"]
    /\ readers' = readers
    /\ UNCHANGED <<ports, threads, printed, arrived, mapper>>
    /\ UNCHANGED appVars

\* DrumApp.start_reader(port_name), up to the end of the old reader's stop()
StartReader(port_name) ==
    /\ ctl.pc = "idle"
    /\ Len(readers) < MaxReaders
    /\ Len(ports) < MaxOpens
    /\ LET c == Enter("start_reader", app_reader, port_name)
       IN  IF app_reader # None
           THEN StopBegin(app_reader, c)
           ELSE /\ ctl' = [c EXCEPT !.pc = "create"]
                /\ readers' = readers
    /\ UNCHANGED <<ports, threads, printed, arrived, mapper>>
    /\ UNCHANGED appVars

\* start_reader after the stop: construct the new reader with
\* message_handler=handle_msg, auto_start=False, port_keyword=None and enter
\* its start(port_name)
StartReaderCreate ==
    /\ ctl.pc = "create"
    /\ readers' = Append(readers,
                    [NewReader(NoneStr, "handle_msg") EXCEPT !.port_name = ctl.arg])
    /\ app_reader' = Len(readers) + 1
    /\ ctl' = [ctl EXCEPT !.pc = "open", !.r = Len(readers) + 1]
    /\ UNCHANGED <<ports, threads, printed, arrived, mapper>>
    /\ UNCHANGED <<qtQueue, events, current_time, now, drawn, writers, lastPruned>>

\* DrumApp.closeEvent
CloseEvent ==
    /\ ctl.pc = "idle"
    /\ LET c == Enter("closeEvent", app_reader, NoneStr)
       IN  IF app_reader # None
           THEN StopBegin(app_reader, c)
           ELSE /\ ctl' = Returned(c)
                /\ readers' = readers
    /\ UNCHANGED <<ports, threads, printed, arrived, mapper>>
    /\ UNCHANGED appVars

\* a direct call of sheet.add_midi_hit by the GUI thread
AddMidiHit(midi_note, velocity) ==
    /\ ctl.pc = "idle"
    /\ Len(events) < MaxEvents
    /\ add_midi_hit(GuiThread, midi_note, velocity)
    /\ UNCHANGED <<qtQueue, mapper>>
    /\ UNCHANGED readerVars

\* a direct call of sheet.add_note by the GUI thread
AddNote(midi_note) ==
    /\ ctl.pc = "idle"
    /\ Len(events) < MaxEvents
    /\ add_note(GuiThread, midi_note)
    /\ UNCHANGED <<qtQueue, mapper>>
    /\ UNCHANGED readerVars

\* the GUI event loop runs a queued note_received emission: sheet.add_note(note)
DeliverNote ==
    /\ ctl.pc = "idle"
    /\ qtQueue # <<>>
    /\ add_note(GuiThread, Head(qtQueue))
    /\ qtQueue' = Tail(qtQueue)
    /\ UNCHANGED <<mapper>>
    /\ UNCHANGED readerVars

\* MusicSheetWidget._tick, run by the widget's QTimer in the GUI event loop
Tick ==
    /\ ctl.pc = "idle"
    /\ current_time' = now
    /\ events' = prune_events(events, now)
    /\ lastPruned' = Len(events) - Len(prune_events(events, now))
    /\ writers' = writers \cup {GuiThread}
    /\ UNCHANGED <<app_reader, qtQueue, now, drawn, mapper>>
    /\ UNCHANGED readerVars

\* MusicSheetWidget.paintEvent: the notes it draws
PaintEvent ==
    /\ ctl.pc = "idle"
    /\ drawn' = [time |-> current_time, notes |-> Drawable(events, current_time)]
    /\ UNCHANGED <<app_reader, qtQueue, events, current_time, now, writers, lastPruned, mapper>>
    /\ UNCHANGED readerVars

\* time passes
Advance ==
    /\ now < MaxTime
    /\ now' = now + 1
    /\ UNCHANGED <<app_reader, qtQueue, events, current_time, drawn, writers, lastPruned, mapper>>
    /\ UNCHANGED readerVars

-----------------------------------------------------------------------------
(* Calls of the mapper *)

Unset == 0 - 2

Noteheads == {"x", "+", "O", "o", "normal", "accent", "zz"}
Positions == {DRUM_NOTATION_TO_MIDI[i][2] : i \in 1..Len(DRUM_NOTATION_TO_MIDI)} \cup {"nowhere"}
Articulations == VelocityKeys \cup {"flam"}
Dynamics == DynamicKeys \cup {"None", "", "sfz"}

NoMapperCall ==
    [notehead |-> "normal", position |-> "middle_line", articulation |-> "normal",
     dynamic |-> "None", midi_note |-> Unset, velocity |-> Unset, mapped |-> <<Unset, Unset>>]

CallGetMidiNote ==
    /\ mapper' = [mapper EXCEPT !.midi_note = get_midi_note(mapper.notehead, mapper.position)]
    /\ UNCHANGED readerVars
    /\ UNCHANGED appVars

CallGetVelocity ==
    /\ mapper' = [mapper EXCEPT !.velocity = get_velocity(mapper.articulation, mapper.dynamic)]
    /\ UNCHANGED readerVars
    /\ UNCHANGED appVars

CallMapEvent ==
    /\ mapper' = [mapper EXCEPT !.mapped =
                    map_event([notehead |-> mapper.notehead, position |-> mapper.position,
                               articulation |-> mapper.articulation, dynamic |-> mapper.dynamic])]
    /\ UNCHANGED readerVars
    /\ UNCHANGED appVars

-----------------------------------------------------------------------------
(* Specifications *)

NoDrawing == [time |-> 0, notes |-> <<>>]

InitWidget ==
    /\ app_reader = None
    /\ qtQueue = <<>>
    /\ events = <<>>
    /\ current_time = 0
    /\ now = 0
    /\ drawn = NoDrawing
    /\ writers = {}
    /\ lastPruned = 0

InitNoReader ==
    /\ ports = <<>>
    /\ threads = <<>>
    /\ ctl = IdleCtl
    /\ printed = <<>>
    /\ arrived = 0

\* one USBMIDIReader constructed with auto_start=False and the default handler,
\* used by one calling thread
\* the message_handler argument of the reader: None, which makes it
\* _default_handler, or a handler that calls the reader's stop
Handlers == {"default", "stop_on_note_off"}

Init ==
    /\ mapper = NoMapperCall
    /\ \E kw \in Keywords, h \in Handlers : readers = <<NewReader(kw, h)>>
    /\ InitNoReader
    /\ InitWidget

Next ==
    \/ \E r \in 1..Len(readers), pn \in Names \cup {NoneStr} : Start(r, pn)
    \/ \E L \in AvailLists, slept \in 1..TimeoutPolls : DetectPoll(L, slept)
    \/ DetectTimeout
    \/ \E L \in AvailLists : Open(L)
    \/ \E r \in 1..Len(readers) : Stop(r)
    \/ StopFinish
    \/ \E k \in 1..Len(threads) : LoopCheck(k)
    \/ \E k \in 1..Len(threads) : LoopDeliver(k)
    \/ \E k \in 1..Len(threads) : LoopSleep(k)
    \/ \E p \in 1..Len(ports), m \in Messages : MidiArrive(p, m)

Spec == Init /\ [][Next]_vars

\* the reader used with start and stop calls and as a context manager
WithNext ==
    \/ Next
    \/ \E r \in 1..Len(readers) : WithEnter(r)
    \/ WithEnterReturn

WithSpec == Init /\ [][WithNext]_vars

\* one step of _read_loop in thread object k
ThreadStep(k) == LoopCheck(k) \/ LoopDeliver(k) \/ LoopSleep(k)

\* the reader of LiveSpec: its keyword is "usb"
LiveInit ==
    /\ Init
    /\ readers[1].port_keyword = <<"u", "s", "b">>

\* Spec with the scheduler's guarantee that a started thread which can take a
\* step of _read_loop takes it in the end (the loop sleeps poll_interval
\* seconds and never blocks), and that a thread.join() which can return does
LiveSpec ==
    /\ LiveInit /\ [][Next]_vars
    /\ \A k \in 1..MaxOpens : WF_vars(ThreadStep(k))
    /\ WF_vars(StopFinish)

\* the DrumApp window after __init__: no reader yet, an empty staff
AppInit ==
    /\ mapper = NoMapperCall
    /\ readers = <<>>
    /\ InitNoReader
    /\ InitWidget

AppNext ==
    \/ \E pn \in Names : StartReader(pn)
    \/ StartReaderCreate
    \/ \E L \in AvailLists : Open(L)
    \/ CloseEvent
    \/ StopFinish
    \/ \E k \in 1..Len(threads) : LoopCheck(k)
    \/ \E k \in 1..Len(threads) : LoopDeliver(k)
    \/ \E k \in 1..Len(threads) : LoopSleep(k)
    \/ \E p \in 1..Len(ports), m \in Messages : MidiArrive(p, m)
    \/ DeliverNote
    \/ Tick
    \/ PaintEvent
    \/ Advance

AppSpec == AppInit /\ [][AppNext]_vars

\* the staff view alone: hits, timer ticks and repaints in the GUI thread
WidgetInit ==
    /\ mapper = NoMapperCall
    /\ readers = <<>>
    /\ InitNoReader
    /\ InitWidget

\* the (midi_note, velocity) pairs and the notes the calls are made with
Hits == {<<38, 20>>, <<60, 110>>}
HitNotes == {42}

WidgetNext ==
    \/ \E h \in Hits : AddMidiHit(h[1], h[2])
    \/ \E n \in HitNotes : AddNote(n)
    \/ Tick
    \/ PaintEvent
    \/ Advance

WidgetSpec == WidgetInit /\ [][WidgetNext]_vars

\* calls of the mapper on every input of the bounded sets
MapperInit ==
    /\ mapper \in [notehead : Noteheads, position : Positions,
                   articulation : Articulations, dynamic : Dynamics,
                   midi_note : {Unset}, velocity : {Unset}, mapped : {<<Unset, Unset>>}]
    /\ readers = <<>>
    /\ InitNoReader
    /\ InitWidget

MapperNext ==
    \/ CallGetMidiNote
    \/ CallGetVelocity
    \/ CallMapEvent

MapperSpec == MapperInit /\ [][MapperNext]_vars

-----------------------------------------------------------------------------
(* The notation mapper: C8, C9 *)

\* the sound codes the table documents for a (notehead, position) pair
TableCodes(notehead, position) ==
    {DRUM_NOTATION_TO_MIDI[i][3] : i \in
        {j \in 1..Len(DRUM_NOTATION_TO_MIDI) :
            /\ DRUM_NOTATION_TO_MIDI[j][1] = notehead
            /\ DRUM_NOTATION_TO_MIDI[j][2] = position}}

\* what C8 asks of the lookup: the pair's own code, else the code of
\* ("normal", position), else unmapped
ExpectedNote(notehead, position) ==
    IF TableCodes(notehead, position) # {}
    THEN CHOOSE c \in TableCodes(notehead, position) : TRUE
    ELSE IF TableCodes("normal", position) # {}
    THEN CHOOSE c \in TableCodes("normal", position) : TRUE
    ELSE None

\* C8: get_midi_note returns the table's code for a pair of the table,
\* otherwise the code of ("normal", position) when the table has it, otherwise
\* None; map_event returns None in exactly the cases get_midi_note is None and
\* otherwise carries that code.
C8_NoteLookup ==
    LET want == ExpectedNote(mapper.notehead, mapper.position)
    IN  /\ mapper.midi_note # Unset => mapper.midi_note = want
        /\ mapper.mapped # <<Unset, Unset>> =>
              /\ (mapper.mapped = NoMapping) <=> (want = None)
              /\ mapper.mapped # NoMapping => mapper.mapped[1] = want

\* an unknown notehead on a known position got the "normal" code, from both calls
C8_Witness ==
    /\ mapper.notehead = "zz"
    /\ mapper.position = "bottom_line"
    /\ mapper.midi_note = 43
    /\ mapper.mapped[1] = 43

\* the multipliers as the decimal numbers the table writes, in hundredths
DecimalMultiplier(dynamic) ==
    CASE dynamic = "pp" -> 50
      [] dynamic = "p" -> 70
      [] dynamic = "mp" -> 85
      [] dynamic = "mf" -> 100
      [] dynamic = "f" -> 115
      [] dynamic = "ff" -> 130
      [] OTHER -> 100

DecimalBase(articulation) ==
    CASE articulation = "ghost" -> 30
      [] articulation = "accent" -> 110
      [] articulation = "rimshot" -> 120
      [] OTHER -> 80

\* C9: get_velocity is the integer part of base(articulation) x
\* multiplier(dynamic), clamped into [1, 127]; an unknown articulation has base
\* 80 and an unknown or absent dynamic has multiplier 1.0; ("accent", "ff") is
\* at most 127 and ("ghost", "pp") at least 1.
C9_Velocity ==
    mapper.velocity # Unset =>
        LET exact == (DecimalBase(mapper.articulation) * DecimalMultiplier(mapper.dynamic)) \div 100
        IN  /\ mapper.velocity = Max(1, Min(127, exact))
            /\ mapper.velocity \in 1..127
            /\ mapper.articulation = "accent" /\ mapper.dynamic = "ff" => mapper.velocity <= 127
            /\ mapper.articulation = "ghost" /\ mapper.dynamic = "pp" => mapper.velocity >= 1

\* ("accent", "ff") is 143 before the clamp and came out as 127
C9_Witness ==
    /\ mapper.articulation = "accent"
    /\ mapper.dynamic = "ff"
    /\ mapper.velocity = 127

-----------------------------------------------------------------------------
(* The staff view: C7 *)

\* C7: no record older than current_time - seconds_visible is in the event
\* list (so none is there after a tick), and every record a redraw drew has
\* an age dt = current_time - t with 0 <= dt <= seconds_visible.
C7_WindowPruned ==
    /\ \A i \in 1..Len(events) : events[i].t >= current_time - SecondsVisible
    /\ \A i \in 1..Len(drawn.notes) :
          /\ drawn.notes[i].dt = drawn.time - drawn.notes[i].ev.t
          /\ drawn.notes[i].dt >= 0
          /\ drawn.notes[i].dt <= SecondsVisible
          /\ drawn.notes[i].ev.t >= drawn.time - SecondsVisible
    /\ \A i \in 1..Len(Drawable(events, current_time)) :
          Drawable(events, current_time)[i].ev.t >= current_time - SecondsVisible

\* a tick has dropped a record that left the window, a later hit is in the
\* list and a redraw has drawn a record
C7_Witness ==
    /\ lastPruned > 0
    /\ current_time > SecondsVisible
    /\ events # <<>>
    /\ drawn.notes # <<>>

-----------------------------------------------------------------------------
(* The reader: C1, C2, C3, C4, C10 *)

\* the calling thread enters stop() of a reader in this step
StopCalled == ctl.pc = "idle" /\ ctl' # ctl /\ ctl'.op = "stop"

\* stop() of a running reader returns in this step
StopReturns == ctl.pc = "join" /\ ctl'.pc # "join"

\* a stop call on the running reader r, made by the handler, ends in this
\* step with the RuntimeError of join
StopRaised(r) ==
    /\ readers[r].running
    /\ readers[r].thread # None
    /\ threads[readers[r].thread].exc = "none"
    /\ threads'[readers[r].thread].exc = "RuntimeError"

\* C1: after a successful start, however many stop calls follow, close() is
\* called exactly once on the reader's endpoint: once by the time the stop of
\* the running reader ends, whichever thread made the call, never a second
\* time; a stop call of the calling thread on a reader that is
\* not running changes no reader, port or thread state and returns normally.
C1_StopClosesOnce ==
    [][ /\ \A p \in 1..Len(ports') : ports'[p].closeCalls <= 1
        /\ StopReturns => ports'[readers[ctl.r].port].closeCalls = 1
        /\ \A r \in 1..Len(readers) :
              StopRaised(r) => ports'[readers[r].port].closeCalls = 1
        /\ StopCalled /\ ~readers[ctl'.r].running =>
              /\ readers' = readers
              /\ ports' = ports
              /\ threads' = threads
              /\ ctl'.pc = "idle"
              /\ ctl'.result = "ok"
      ]_vars

\* a stop call has returned early on a reader that an earlier stop had
\* stopped; the endpoint has its one close
C1_Witness ==
    /\ ctl.op = "stop"
    /\ ctl.pc = "idle"
    /\ ctl.early
    /\ readers[1].port # None
    /\ ~readers[1].running
    /\ ports[readers[1].port].closeCalls = 1

\* name contains keyword, case-insensitively
CiContains(keyword, name) ==
    \E i \in 0..(Len(name) - Len(keyword)) :
        \A j \in 1..Len(keyword) : LowerChar(name[i + j]) = LowerChar(keyword[j])

\* the endpoint C2 says a poll of the list L selects, None when it says nothing
Selected(keyword, L) ==
    IF keyword = NoneStr
    THEN IF L # <<>> THEN L[1] ELSE NoneStr
    ELSE IF \E i \in 1..Len(L) : CiContains(keyword, L[i])
    THEN L[CHOOSE i \in 1..Len(L) :
                /\ CiContains(keyword, L[i])
                /\ \A j \in 1..(i - 1) : ~CiContains(keyword, L[j])]
    ELSE NoneStr

LastPoll == ctl.polls[Len(ctl.polls)]

\* C2: a poll of an endpoint list by a reader started without a port name
\* selects the first endpoint whose name contains the keyword,
\* case-insensitively, and with no keyword (None) the first endpoint of the list.
C2_Selection ==
    ctl.op = "start" /\ ctl.polls # <<>> =>
        LET want == Selected(readers[ctl.r].port_keyword, LastPoll)
        IN  want # NoneStr =>
              /\ ctl.pc # "detect"
              /\ ctl.result # "TimeoutError"
              /\ readers[ctl.r].port_name = want

\* the part of C2 about readers that have a keyword
C2_KeywordSelection ==
    ctl.op = "start" /\ ctl.polls # <<>> /\ readers[ctl.r].port_keyword # NoneStr =>
        LET want == Selected(readers[ctl.r].port_keyword, LastPoll)
        IN  IF want # NoneStr
            THEN ctl.pc # "detect" /\ readers[ctl.r].port_name = want
            ELSE ctl.pc = "detect" \/ ctl.result = "TimeoutError"

\* the keyword "R" picked "Other" out of ("Other", "USB Drum"), which both match
C2_KeywordWitness ==
    /\ ctl.op = "start"
    /\ ctl.polls # <<>>
    /\ readers[ctl.r].port_keyword = <<"R">>
    /\ LastPoll = <<Other, USBDrum>>
    /\ readers[ctl.r].port_name = Other
    /\ readers[ctl.r].running

\* C3: a start without a port name ends in TimeoutError exactly when none of
\* its polls showed an endpoint whose name contains the keyword, and then the
\* reader is idle: running is false, the call has opened no endpoint and
\* launched no thread.
C3_TimeoutLeavesIdle ==
    /\ ctl.op = "start" /\ ctl.arg = NoneStr /\ ctl.pc = "idle" /\ ~ctl.early =>
          (ctl.result = "TimeoutError" <=>
              \A i \in 1..Len(ctl.polls) :
                  \A n \in 1..Len(ctl.polls[i]) :
                      ~(Truthy(readers[ctl.r].port_keyword)
                        /\ CiContains(readers[ctl.r].port_keyword, ctl.polls[i][n])))
    /\ ctl.result = "TimeoutError" =>
          /\ ~readers[ctl.r].running
          /\ Len(ports) = ctl.nports0
          /\ Len(threads) = ctl.nthreads0
          /\ \A k \in AliveThreads : threads[k].reader # ctl.r

\* a reader with the keyword "usb" polled lists holding only "Other" until the
\* timeout and start raised TimeoutError
C3_Witness ==
    /\ ctl.result = "TimeoutError"
    /\ readers[ctl.r].port_keyword = <<"u","s","b">>
    /\ Len(ctl.polls) = TimeoutPolls
    /\ \A i \in 1..Len(ctl.polls) : ctl.polls[i] = <<Other>>
    /\ readers[ctl.r].port = None

\* idle: never started; running; stopped: not running after a start
Lifecycle(rd) ==
    IF rd.running THEN "running"
    ELSE IF rd.port = None THEN "idle"
    ELSE "stopped"

\* C4 as stated: idle -> running -> stopped and nothing else; a stopped
\* reader never becomes running again and never opens another endpoint.
C4_StoppedIsFinal ==
    [][ \A r \in 1..Len(readers) :
            LET a == Lifecycle(readers[r])
                b == Lifecycle(readers'[r])
            IN  /\ a # b => (a = "idle" /\ b = "running") \/ (a = "running" /\ b = "stopped")
                /\ a = "stopped" => b = "stopped" /\ readers'[r].port = readers[r].port
      ]_vars

\* C4 as the code has it: a reader becomes running only by start, from idle or
\* from stopped, and start then gives it a newly opened endpoint; it stops
\* being running only by stop, which leaves it stopped with its endpoint; it
\* never returns to idle.
C4_Lifecycle ==
    [][ \A r \in 1..Len(readers) :
            LET a == Lifecycle(readers[r])
                b == Lifecycle(readers'[r])
            IN  /\ a # b =>
                    \/ /\ a \in {"idle", "stopped"}
                       /\ b = "running"
                       /\ ctl.op = "start" /\ ctl.r = r /\ ctl.pc = "open"
                       /\ Len(ports') = Len(ports) + 1
                       /\ readers'[r].port = Len(ports')
                       /\ ports'[readers'[r].port].closeCalls = 0
                    \/ /\ a = "running"
                       /\ b = "stopped"
                       /\ \/ ctl'.op = "stop" /\ ctl'.r = r /\ ctl'.pc = "join"
                          \/ StopRaised(r)
                       /\ readers'[r].port = readers[r].port
                /\ a = b => readers'[r].port = readers[r].port
      ]_vars

\* a reader that was stopped is running again, on a second endpoint
C4_Witness ==
    /\ readers[1].running
    /\ readers[1].port = 2
    /\ ports[1].closeCalls = 1
    /\ ports[2].closeCalls = 0

\* C10: stop signals, joins, then closes.  An endpoint is closed only when no
\* live polling thread reads from it; the polling thread is never in its
\* drain of a closed endpoint; the callback is invoked only by the thread of a
\* reader that is running or whose stop has not returned yet.
C10_StopOrder ==
    [][ /\ \A p \in 1..Len(ports) :
              ports'[p].closeCalls > ports[p].closeCalls =>
                  \A k \in AliveThreads :
                      threads[k].it # p /\ readers[threads[k].reader].port # p
        /\ \A k \in 1..Len(threads') :
              threads'[k].pc = "iter" => ports'[threads'[k].it].closeCalls = 0
        /\ \A k \in 1..Len(threads') :
              threads'[k].pc # "done" =>
                  \/ readers'[threads'[k].reader].running
                  \/ ctl'.pc = "join" /\ ctl'.r = threads'[k].reader
        /\ printed' # printed =>
              \E k \in AliveThreads :
                  /\ threads[k].pc = "iter"
                  /\ \/ readers[threads[k].reader].running
                     \/ ctl.pc = "join" /\ ctl.r = threads[k].reader
      ]_vars

\* stop has returned after the thread passed a message to the callback: the
\* thread has ended, the endpoint is closed, a message is still undelivered
C10_Witness ==
    /\ ctl.op = "stop" /\ ctl.pc = "idle" /\ ~ctl.early
    /\ printed # <<>>
    /\ threads[1].pc = "done"
    /\ ports[1].closeCalls = 1
    /\ ports[1].queue # <<>>

-----------------------------------------------------------------------------
(* The application shell: C5, C6 *)

\* reader r has been stopped: not running, its thread ended, its endpoint closed
Stopped(r) ==
    /\ ~readers[r].running
    /\ readers[r].thread # None => threads[readers[r].thread].pc = "done"
    /\ readers[r].port # None => ports[readers[r].port].closeCalls > 0

\* C5: start_reader has stopped the active reader, its thread joined and its
\* endpoint closed, when it creates and starts the new one; every reader that
\* DrumApp.reader no longer names is stopped, and at most one polling thread
\* is alive at any time.
C5_OneReaderThread ==
    /\ Cardinality(AliveThreads) <= 1
    /\ \A r \in 1..Len(readers) : r # app_reader => Stopped(r)
    /\ ctl.pc = "create" => \A r \in 1..Len(readers) : Stopped(r)
    /\ \A k \in AliveThreads : threads[k].reader = app_reader

\* a second start_reader has stopped the first reader, which had run, and the
\* second reader's thread is the one alive
C5_Witness ==
    /\ Len(readers) = 2
    /\ app_reader = 2
    /\ readers[2].running
    /\ AliveThreads = {2}
    /\ readers[1].port # None
    /\ ports[readers[1].port].closeCalls = 1

\* a polling thread takes a message from its endpoint in this step
Delivers(p) == Len(ports'[p].queue) < Len(ports[p].queue)

\* C6: only the GUI thread mutates the event list.  A step of the reader
\* thread's callback leaves the list alone and appends the note of a note_on
\* with velocity > 0 to the queue of the GUI event loop; the list changes only
\* in handlers the GUI thread runs from its event loop.
C6_GuiOwnsEvents ==
    [][ /\ writers' \subseteq {GuiThread}
        /\ \A p \in 1..Len(ports) :
              Delivers(p) =>
                  LET msg == Head(ports[p].queue)
                  IN  /\ events' = events
                      /\ writers' = writers
                      /\ qtQueue' = IF msg.type = "note_on" /\ msg.velocity > 0
                                    THEN Append(qtQueue, msg.note)
                                    ELSE qtQueue
        /\ events' # events => ctl.pc = "idle" /\ ports' = ports /\ threads' = threads
      ]_vars

\* the GUI thread has put one hit of the reader thread into the list, the
\* next one is waiting in the queue and the thread is still alive
C6_Witness ==
    /\ writers = {GuiThread}
    /\ events # <<>>
    /\ qtQueue # <<>>
    /\ AliveThreads # {}

-----------------------------------------------------------------------------
(* C11 *)

\* port p belongs to a running reader: stop has not been called on it
Polled(p) ==
    \E r \in 1..Len(readers) : readers[r].running /\ readers[r].port = p

\* at least n messages are pending on port p
C11_Pending(p, n) == p <= Len(ports) /\ Len(ports[p].queue) >= n

\* fewer than n messages are pending on port p, or stop has been called on
\* its reader
C11_PassedOrStopped(p, n) ==
    p <= Len(ports) /\ (Len(ports[p].queue) < n \/ ~Polled(p))

\* the safety half of C11: a message leaves the pending messages of a port
\* only from their head, at that moment the handler is called once, with
\* that message, by a thread draining the port, and the handler is called at
\* no other moment; messages join the pending ones at their end
C11_OncePerMessageInOrder ==
    [][ /\ \A p \in 1..Len(ports) :
              LET queue == ports[p].queue
              IN  \/ ports'[p].queue = queue
                  \/ /\ \E m \in Messages : ports'[p].queue = Append(queue, m)
                     /\ printed' = printed
                  \/ /\ queue # <<>>
                     /\ ports'[p].queue = Tail(queue)
                     /\ printed' = Append(printed, Head(queue))
                     /\ \E k \in 1..Len(threads) :
                           threads[k].pc = "iter" /\ threads[k].it = p
        /\ printed' # printed => \E q \in 1..Len(ports) : Delivers(q)
      ]_vars

\* the liveness half of C11: as long as stop is not called, the messages
\* ahead of a pending message and the message itself leave the port
C11_EventuallyPassed ==
    \A p \in 1..MaxOpens, n \in 1..MaxMsgs :
        C11_Pending(p, n) ~> C11_PassedOrStopped(p, n)

\* C11: the polling thread calls the handler exactly once for each message
\* it drains from the port, in the order the port delivers them, none twice
\* and none skipped, and as long as stop is not called every message that
\* becomes pending on the port is passed to the handler in the end.
C11_Delivery == C11_OncePerMessageInOrder /\ C11_EventuallyPassed

\* a running reader whose thread has passed two different messages of its
\* port to the handler, the first one first, and left nothing pending
C11_Witness ==
    \E r \in 1..Len(readers) :
        /\ readers[r].running
        /\ readers[r].port = 1
        /\ ports[1].queue = <<>>
        /\ arrived = 2
        /\ Len(printed) = 2
        /\ printed[1] # printed[2]

-----------------------------------------------------------------------------
(* C12 *)

\* the ports on which close() has not been called
OpenPorts == {p \in 1..Len(ports) : ports[p].closeCalls = 0}

\* the calling thread enters start() of a reader in this step
StartCalled == ctl.pc = "idle" /\ ctl' # ctl /\ ctl'.op = "start"

\* no stop call of the calling thread on reader r is under way
NoStopUnderWay(r) == ~(ctl.pc = "join" /\ ctl.r = r)

\* C12: for one reader, over any sequence of start and stop calls, at most
\* one polling thread is alive and at most one endpoint is open at any time;
\* once the reader is stopped every endpoint it opened is closed; a start
\* call on a running reader changes nothing.
C12_OneThreadOneEndpoint ==
    [][ /\ Cardinality(AliveThreads') <= 1
        /\ Cardinality(OpenPorts') <= 1
        /\ \A r \in 1..Len(readers') :
              ~readers'[r].running /\ NoStopUnderWay(r)' =>
                  \A p \in 1..Len(ports') :
                      threads'[p].reader = r => ports'[p].closeCalls > 0
        /\ StartCalled /\ readers[ctl'.r].running =>
              /\ readers' = readers
              /\ ports' = ports
              /\ threads' = threads
              /\ ctl'.pc = "idle"
      ]_vars

-----------------------------------------------------------------------------
(* C14 *)

\* C14: a stop call on a running reader returns, and when it has ended the
\* polling thread has exited and the endpoint is closed, whichever thread
\* made the call: the calling thread, or the polling thread from inside the
\* handler.
C14_StopCompletes ==
    [][ /\ StopReturns =>
              /\ ~readers'[ctl.r].running
              /\ threads'[readers'[ctl.r].thread].pc = "done"
              /\ ports'[readers'[ctl.r].port].closeCalls > 0
        /\ \A r \in 1..Len(readers) :
              /\ readers[r].running
              /\ ~readers'[r].running
              /\ NoStopUnderWay(r)'
              => /\ threads'[readers'[r].thread].exc = "none"
                 /\ threads'[readers'[r].thread].pc = "done"
                 /\ ports'[readers'[r].port].closeCalls > 0
      ]_vars

\* a stop call of the calling thread on a running reader is waiting in join
StopWaits == ctl.pc = "join"

\* that stop call has returned: the thread has exited, the endpoint is closed
StopHasReturned ==
    /\ ctl.pc = "idle"
    /\ ctl.op = "stop"
    /\ ~ctl.early
    /\ ~readers[ctl.r].running
    /\ threads[readers[ctl.r].thread].pc = "done"
    /\ ports[readers[ctl.r].port].closeCalls > 0

\* the part of C14 the code keeps: a stop call made by a thread other than
\* the polling thread returns in the end, the thread exited and the endpoint
\* closed
C14_ExternalStopReturns == StopWaits ~> StopHasReturned

-----------------------------------------------------------------------------
(* C13 *)

\* the with statement of the calling thread is over, and start did not fail
WithIsOver ==
    /\ ctl.op = "with"
    /\ ctl.pc = "idle"
    /\ ctl.result \notin {"TimeoutError", "IOError"}

\* C13: a with statement on a reader starts the reader if it is not running,
\* enters its body with the reader, the endpoint open, and on leaving the
\* body stops the reader and closes the endpoint: when the statement is over
\* no error has come out of entering it, the reader is not running, its
\* thread has ended and its endpoint is closed.
C13_ScopedEndpoint ==
    /\ ctl.pc = "enter_return" =>
          /\ readers[ctl.r].running
          /\ ports[readers[ctl.r].port].closeCalls = 0
    /\ WithIsOver =>
          /\ ctl.result = "ok"
          /\ ~readers[ctl.r].running
          /\ threads[readers[ctl.r].thread].pc = "done"
          /\ ports[readers[ctl.r].port].closeCalls > 0

====
